---------------------------- MODULE Spec2Model ----------------------------
(***************************************************************************)
(* Smart-home device monitoring pipeline (pythonproj.py).                  *)
(*                                                                         *)
(* Two threads are modelled.  The event-loop thread runs main(), the       *)
(* connect() coroutines and one device_loop task per device under          *)
(* asyncio's cooperative scheduling: `running` names the coroutine that    *)
(* holds the loop, and control changes hands only at an await.  The        *)
(* storage_worker thread is preemptive: its steps interleave with every    *)
(* step of the event-loop thread, and the two meet only at the queue.      *)
(*                                                                         *)
(* Floats (temperatures, battery level) are fixed-point integers in        *)
(* hundredths: 30 degrees is 3000, a battery level of 100 is 10000.        *)
(* Brightness is a Python int and is kept as a plain integer.              *)
(***************************************************************************)
EXTENDS Integers, Sequences, FiniteSets, TLC

VARIABLES
    main_pc,     \* position of main(): idle, connecting, running, drain_test,
                 \* drain_get, reporting, done, crashed
    process,     \* "alive" until the interpreter exits, then "exited"
    running,     \* coroutine holding the event loop: "main", "loop" (idle) or a device id
    conn_pc,     \* per device: position of connect(): idle, sleeping, done
    pc,          \* per device: position of device_loop
    update,      \* per device: the local `update` of device_loop
    dev,         \* per device: the device object's fields
    now,         \* datetime.now(), as a logical clock
    snapshots,   \* number of send_update calls so far
    budget,      \* number of send_update calls that fit before the deadline
    data_queue,  \* queue.Queue contents, head first
    updates,     \* the in-memory accumulator list of main()
    summary,     \* what main() printed under ANALYTICS SUMMARY
    worker_pc,   \* position of storage_worker
    worker_item, \* the local `update` of storage_worker
    log,         \* lines of history.log written by this run
    pushed,      \* history: every update handed to data_queue.put, in order
    taken        \* history: who removed what from the queue

vars == <<main_pc, process, running, conn_pc, pc, update, dev, now, snapshots, budget,
          data_queue, updates, summary, worker_pc, worker_item, log, pushed, taken>>

loopVars   == <<main_pc, running, conn_pc, pc, update, dev, now, snapshots, budget>>
workerVars == <<worker_pc, worker_item, log>>

-----------------------------------------------------------------------------
(* Bounds and input sets *)

\* snapshots that fit before the deadline when both threads are followed
MaxSnapshots == 3

\* snapshots that fit before the deadline when the event-loop thread is followed alone
MaxLoopSnapshots == 5

\* calls made on the device objects when their methods are exercised directly
MaxApiCalls == 3

\* values written to the brightness property and passed as turn_on's brightness
BrightnessWrites == {-20, 0, 55, 100, 101, 300}

\* values written to the battery_level property (hundredths)
BatteryWrites == {-500, 0, 4250, 10000, 10050, 20000}

\* length of the update lists handed to process_analytics directly
MaxUpdates == 4

\* the updates those lists are made of: thermostats at 28, 32, 30 and 30.4 degrees,
\* cameras at 5, 10 and 40 percent, bulbs on at 80, off at 80 and on at 100
SampleUpdates ==
    {[device_type |-> "THERMOSTAT", current_temp |-> t] : t \in {2800, 3200, 3000, 3040}}
    \cup {[device_type |-> "CAMERA", battery_level |-> b] : b \in {500, 1000, 4000}}
    \cup {[device_type |-> "BULB", is_on |-> TRUE, brightness |-> 80],
          [device_type |-> "BULB", is_on |-> FALSE, brightness |-> 80],
          [device_type |-> "BULB", is_on |-> TRUE, brightness |-> 100]}

\* command names passed to execute_command
Commands == {"turn_on", "cool_down", "snapshot", "turn_off", "reboot"}

\* random.uniform(20, 28) of SmartThermostat.__init__, sampled
InitialTemps == {2000, 2800}

\* random.uniform(-1, 2) of SmartThermostat._get_status, sampled
TempDrifts == {-100, 4, 200}

\* random.uniform(5, 12) of SmartCamera._get_status, sampled
BatteryDrains == {1200}

Devices == {"b1", "t1", "c1"}

NoUpdate == [device_type |-> "NONE"]

NoSummary == [printed |-> FALSE]

-----------------------------------------------------------------------------
(* Pure helpers *)

\* round(x, 1) on hundredths: nearest multiple of 10, ties to even
Round1(x) ==
    LET q == x \div 10
        r == x % 10
    IN  IF r < 5 THEN 10 * q
        ELSE IF r > 5 THEN 10 * (q + 1)
        ELSE IF q % 2 = 0 THEN 10 * q ELSE 10 * (q + 1)

\* the brightness setter, lines 57-64
SetBrightness(value) ==
    IF value < 0 THEN 0 ELSE IF value > 100 THEN 100 ELSE value

\* a battery_level setter without the lower clamp
SetBatteryNoFloor(value) ==
    IF value > 10000 THEN 10000 ELSE value

\* the battery_level setter, lines 111-118 (hundredths)
SetBattery(value) ==
    IF value < 0 THEN 0 ELSE IF value > 10000 THEN 10000 ELSE value

Merge(f, g) == [k \in (DOMAIN f) \cup (DOMAIN g) |-> IF k \in DOMAIN g THEN g[k] ELSE f[k]]

Get(u, k, default) == IF k \in DOMAIN u THEN u[k] ELSE default

Contains(s, x) == \E i \in 1..Len(s) : s[i] = x

Occurrences(s, x) == Cardinality({i \in 1..Len(s) : s[i] = x})

RECURSIVE SumSeq(_)
SumSeq(s) == IF s = <<>> THEN 0 ELSE Head(s) + SumSeq(Tail(s))

-----------------------------------------------------------------------------
(* Devices *)

NewBulb(id, name, location) ==
    [device_id |-> id, name |-> name, location |-> location, device_type |-> "BULB",
     is_connected |-> FALSE, is_on |-> FALSE, brightness |-> 0]

NewThermostat(id, name, location, temp) ==
    [device_id |-> id, name |-> name, location |-> location, device_type |-> "THERMOSTAT",
     is_connected |-> FALSE, current_temp |-> temp, target_temp |-> 2200, humidity |-> 5000]

\* last_snapshot 0 stands for None: the clock gives every real timestamp a value >= 1
NewCamera(id, name, location) ==
    [device_id |-> id, name |-> name, location |-> location, device_type |-> "CAMERA",
     is_connected |-> FALSE, motion_detected |-> FALSE, battery_level |-> 10000,
     last_snapshot |-> 0]

\* _get_status: the device after the call (in: the random draws and the clock)
GetStatusDevice(d, drift, motion, drain, t) ==
    IF d.device_type = "THERMOSTAT" THEN
        [d EXCEPT !.current_temp = @ + drift]
    ELSE IF d.device_type = "CAMERA" THEN
        LET b1 == SetBattery(d.battery_level - drain)
        IN  IF motion
            THEN [d EXCEPT !.motion_detected = TRUE, !.last_snapshot = t,
                           !.battery_level = SetBattery(b1 - 1000)]
            ELSE [d EXCEPT !.motion_detected = FALSE, !.battery_level = b1]
    ELSE d

\* _get_status: the dict it returns, read from the device after its mutation
StatusOf(d) ==
    IF d.device_type = "THERMOSTAT" THEN
        [current_temp |-> Round1(d.current_temp), target_temp |-> d.target_temp,
         humidity |-> Round1(d.humidity)]
    ELSE IF d.device_type = "CAMERA" THEN
        [motion_detected |-> d.motion_detected, battery_level |-> Round1(d.battery_level),
         last_snapshot |-> d.last_snapshot]
    ELSE [is_on |-> d.is_on, brightness |-> d.brightness]

\* send_update: the record built from the device after _get_status ran
SendUpdate(d, t) ==
    Merge([device_id |-> d.device_id, name |-> d.name, location |-> d.location,
           device_type |-> d.device_type, timestamp |-> t],
          StatusOf(d))

\* execute_command without the test of the command name in the bulb
ExecuteCommandAnyName(d, command, brightness, t) ==
    IF d.device_type = "BULB" THEN
        [d EXCEPT !.is_on = TRUE, !.brightness = SetBrightness(brightness)]
    ELSE IF d.device_type = "THERMOSTAT" /\ command = "cool_down" THEN
        [d EXCEPT !.current_temp = 2200, !.target_temp = 2200]
    ELSE IF d.device_type = "CAMERA" /\ command = "snapshot" THEN
        [d EXCEPT !.last_snapshot = t]
    ELSE d

\* execute_command of the three kinds (kwargs: brightness, default 100; t: the clock)
ExecuteCommand(d, command, brightness, t) ==
    IF d.device_type = "BULB" /\ command = "turn_on" THEN
        [d EXCEPT !.is_on = TRUE, !.brightness = SetBrightness(brightness)]
    ELSE IF d.device_type = "THERMOSTAT" /\ command = "cool_down" THEN
        [d EXCEPT !.current_temp = 2200, !.target_temp = 2200]
    ELSE IF d.device_type = "CAMERA" /\ command = "snapshot" THEN
        [d EXCEPT !.last_snapshot = t]
    ELSE d

\* the high-temperature rule with the threshold one degree up
HighTempAlertLate(d, u) == d.device_type = "THERMOSTAT" /\ u.current_temp > 3100

\* the high-temperature rule with an inclusive threshold
HighTempAlertInclusive(d, u) == d.device_type = "THERMOSTAT" /\ u.current_temp >= 3000

\* the three alert rules of device_loop
HighTempAlert(d, u) == d.device_type = "THERMOSTAT" /\ u.current_temp > 3000
MotionAlert(d, u) == d.device_type = "CAMERA" /\ u.motion_detected
LowBatteryWarning(d, u) == d.device_type = "CAMERA" /\ u.battery_level < 1000

\* an alert block that clears the camera's motion flag once the alert is raised
AfterAlertsClearingMotion(d, u, t) ==
    IF d.device_type = "THERMOSTAT" /\ u.current_temp > 3000
    THEN ExecuteCommand(d, "cool_down", 100, t)
    ELSE IF d.device_type = "CAMERA" /\ u.motion_detected
    THEN [d EXCEPT !.motion_detected = FALSE]
    ELSE d

\* device after the alert block, lines 153-162
AfterAlerts(d, u, t) ==
    IF HighTempAlert(d, u) THEN ExecuteCommand(d, "cool_down", 100, t) ELSE d


-----------------------------------------------------------------------------
(* Analytics *)

RECURSIVE Temps(_)
Temps(us) ==
    IF us = <<>> THEN <<>>
    ELSE IF Head(us).device_type = "THERMOSTAT"
         THEN <<Get(Head(us), "current_temp", 0)>> \o Temps(Tail(us))
         ELSE Temps(Tail(us))

\* the critical filter with the battery threshold included
RECURSIVE CriticalInclusive(_)
CriticalInclusive(us) ==
    IF us = <<>> THEN <<>>
    ELSE IF \/ (Head(us).device_type = "THERMOSTAT" /\ Get(Head(us), "current_temp", 0) > 3000)
            \/ (Head(us).device_type = "CAMERA" /\ Get(Head(us), "battery_level", 10000) <= 1000)
         THEN <<Head(us)>> \o CriticalInclusive(Tail(us))
         ELSE CriticalInclusive(Tail(us))

RECURSIVE Critical(_)
Critical(us) ==
    IF us = <<>> THEN <<>>
    ELSE IF \/ (Head(us).device_type = "THERMOSTAT" /\ Get(Head(us), "current_temp", 0) > 3000)
            \/ (Head(us).device_type = "CAMERA" /\ Get(Head(us), "battery_level", 10000) < 1000)
         THEN <<Head(us)>> \o Critical(Tail(us))
         ELSE Critical(Tail(us))

RECURSIVE BrightnessVals(_)
BrightnessVals(us) ==
    IF us = <<>> THEN <<>>
    ELSE IF Head(us).device_type = "BULB" /\ Get(Head(us), "is_on", FALSE)
         THEN <<Get(Head(us), "brightness", 0)>> \o BrightnessVals(Tail(us))
         ELSE BrightnessVals(Tail(us))

RECURSIVE BatteryVals(_)
BatteryVals(us) ==
    IF us = <<>> THEN <<>>
    ELSE IF Head(us).device_type = "CAMERA"
         THEN <<Get(Head(us), "battery_level", 0)>> \o BatteryVals(Tail(us))
         ELSE BatteryVals(Tail(us))

\* round(total / n, 1) on hundredths, the quotient taken exactly; 0 for an empty list
RoundedMean(vals) ==
    IF vals = <<>> THEN 0
    ELSE LET total == SumSeq(vals)
             n     == Len(vals)
             k     == total \div (10 * n)
             rem   == total - 10 * n * k
         IN  IF 2 * rem < 10 * n THEN 10 * k
             ELSE IF 2 * rem > 10 * n THEN 10 * (k + 1)
             ELSE IF k % 2 = 0 THEN 10 * k ELSE 10 * (k + 1)

process_analytics(us) ==
    [avg_temp         |-> RoundedMean(Temps(us)),
     critical_count   |-> Len(Critical(us)),
     total_brightness |-> SumSeq(BrightnessVals(us)),
     avg_battery      |-> RoundedMean(BatteryVals(us)),
     total_updates    |-> Len(us)]

-----------------------------------------------------------------------------
(* Initial state: the process has started, main() has not run yet *)

Init ==
    /\ main_pc = "idle"
    /\ process = "alive"
    /\ running = "main"
    /\ conn_pc = [d \in Devices |-> "idle"]
    /\ pc = [d \in Devices |-> "notstarted"]
    /\ update = [d \in Devices |-> NoUpdate]
    /\ dev = [d \in Devices |-> NoUpdate]
    /\ now = 0
    /\ snapshots = 0
    /\ budget = MaxSnapshots
    /\ data_queue = <<>>
    /\ updates = <<>>
    /\ summary = NoSummary
    /\ worker_pc = "notstarted"
    /\ worker_item = NoUpdate
    /\ log = <<>>
    /\ pushed = <<>>
    /\ taken = [worker |-> <<>>, drain |-> <<>>]

-----------------------------------------------------------------------------
(* The event-loop thread: main(), connect(), device_loop *)

\* main() lines 225-241: queue, thread start, devices, connect tasks gathered
MainStart ==
    /\ main_pc = "idle"
    /\ running = "main"
    /\ \E temp \in InitialTemps :
          dev' = [d \in Devices |->
                    IF d = "b1" THEN NewBulb("b1", "Smart Bulb", "Living Room")
                    ELSE IF d = "t1" THEN NewThermostat("t1", "Smart Thermostat", "Main Room", temp)
                    ELSE NewCamera("c1", "Smart Camera", "Entrance")]
    /\ worker_pc' = "open"
    /\ conn_pc' = [d \in Devices |-> "sleeping"]
    /\ main_pc' = "connecting"
    /\ running' = "loop"
    /\ UNCHANGED <<process, pc, update, now, snapshots, budget, data_queue, updates, summary,
                   worker_item, log, pushed, taken>>

\* connect(): the sleep is over, the device is connected
Connect(d) ==
    /\ main_pc = "connecting"
    /\ running = "loop"
    /\ conn_pc[d] = "sleeping"
    /\ dev' = [dev EXCEPT ![d].is_connected = TRUE]
    /\ conn_pc' = [conn_pc EXCEPT ![d] = "done"]
    /\ UNCHANGED <<main_pc, process, running, pc, update, now, snapshots, budget, data_queue,
                   updates, summary, worker_pc, worker_item, log, pushed, taken>>

\* a barrier that opens on the first connect() to return
GatherFirstConnected == \E d \in Devices : conn_pc[d] = "done"

\* asyncio.gather(*[d.connect() ...]) returns once every connect() has returned
GatherConnected == \A d \in Devices : conn_pc[d] = "done"

\* main() lines 242-250: initial bulb state, then the driver tasks start and reach their sleep
MainRun ==
    /\ main_pc = "connecting"
    /\ running = "loop"
    /\ GatherConnected
    /\ dev' = [dev EXCEPT !["b1"].brightness = SetBrightness(80), !["b1"].is_on = TRUE]
    /\ pc' = [d \in Devices |-> "sleeping"]
    /\ main_pc' = "running"
    /\ UNCHANGED <<process, running, conn_pc, update, now, snapshots, budget, data_queue, updates,
                   summary, worker_pc, worker_item, log, pushed, taken>>

\* device_loop lines 147-148: the sleep ends, send_update runs
DriverSnapshot(d) ==
    /\ running = "loop"
    /\ pc[d] = "sleeping"
    /\ snapshots < budget
    /\ now' = now + 1
    /\ snapshots' = snapshots + 1
    /\ UNCHANGED budget
    /\ \E drift \in (IF dev[d].device_type = "THERMOSTAT" THEN TempDrifts ELSE {0}),
          motion \in (IF dev[d].device_type = "CAMERA" THEN BOOLEAN ELSE {FALSE}),
          drain \in (IF dev[d].device_type = "CAMERA" THEN BatteryDrains ELSE {0}) :
          LET after == GetStatusDevice(dev[d], drift, motion, drain, now')
          IN  /\ dev' = [dev EXCEPT ![d] = after]
              /\ update' = [update EXCEPT ![d] = SendUpdate(after, now')]
    /\ pc' = [pc EXCEPT ![d] = "alert"]
    /\ running' = d
    /\ UNCHANGED <<main_pc, process, conn_pc, data_queue, updates, summary, worker_pc,
                   worker_item, log, pushed, taken>>

\* device_loop lines 153-162: the three alert rules
DriverAlerts(d) ==
    /\ running = d
    /\ pc[d] = "alert"
    /\ dev' = [dev EXCEPT ![d] = AfterAlerts(dev[d], update[d], now)]
    /\ pc' = [pc EXCEPT ![d] = "put"]
    /\ UNCHANGED <<main_pc, process, running, conn_pc, update, now, snapshots, budget, data_queue,
                   updates, summary, worker_pc, worker_item, log, pushed, taken>>

\* a put that awaits: the driver gives the event loop away between put and append
DriverPutYields(d) ==
    /\ running = d
    /\ pc[d] = "put"
    /\ data_queue' = Append(data_queue, update[d])
    /\ pushed' = Append(pushed, update[d])
    /\ pc' = [pc EXCEPT ![d] = "append"]
    /\ running' = "loop"
    /\ UNCHANGED <<main_pc, process, conn_pc, update, dev, now, snapshots, budget,
                   updates, summary, worker_pc, worker_item, log, taken>>

\* device_loop line 164: data_queue.put(update)
DriverPut(d) ==
    /\ running = d
    /\ pc[d] = "put"
    /\ data_queue' = Append(data_queue, update[d])
    /\ pushed' = Append(pushed, update[d])
    /\ pc' = [pc EXCEPT ![d] = "append"]
    /\ UNCHANGED <<main_pc, process, running, conn_pc, update, dev, now, snapshots, budget,
                   updates, summary, worker_pc, worker_item, log, taken>>

\* device_loop lines 165 and 147: updates_list.append(update), then back to the sleep
DriverAppend(d) ==
    /\ running = d
    /\ pc[d] = "append"
    /\ updates' = Append(updates, update[d])
    /\ pc' = [pc EXCEPT ![d] = "sleeping"]
    /\ running' = "loop"
    /\ UNCHANGED <<main_pc, process, conn_pc, update, dev, now, snapshots, budget, data_queue,
                   summary, worker_pc, worker_item, log, pushed, taken>>

\* a timeout that leaves the driver tasks as they are
LeftRunning(p) == p

\* what task.cancel() does to a driver: CancelledError is thrown at its await
Cancelled(p) == IF p = "faulted" THEN "faulted" ELSE "cancelled"

\* main() lines 249-252: wait_for times out, every driver is cancelled, TimeoutError is passed
Deadline ==
    /\ main_pc = "running"
    /\ running = "loop"
    /\ pc' = [d \in Devices |-> Cancelled(pc[d])]
    /\ main_pc' = "drain_test"
    /\ running' = "main"
    /\ UNCHANGED <<process, conn_pc, update, dev, now, snapshots, budget, data_queue, updates,
                   summary, worker_pc, worker_item, log, pushed, taken>>

\* main() line 255: while not data_queue.empty()
DrainTest ==
    /\ main_pc = "drain_test"
    /\ main_pc' = IF data_queue = <<>> THEN "reporting" ELSE "drain_get"
    /\ UNCHANGED <<process, running, conn_pc, pc, update, dev, now, snapshots, budget, data_queue,
                   updates, summary, worker_pc, worker_item, log, pushed, taken>>

\* a drain that appends what it gets without the membership test
DrainGetNoDedup ==
    /\ main_pc = "drain_get"
    /\ IF data_queue = <<>>
       THEN /\ main_pc' = "crashed"
            /\ UNCHANGED <<data_queue, updates, taken>>
       ELSE /\ data_queue' = Tail(data_queue)
            /\ taken' = [taken EXCEPT !.drain = Append(@, Head(data_queue))]
            /\ updates' = Append(updates, Head(data_queue))
            /\ main_pc' = "drain_test"
    /\ UNCHANGED <<process, running, conn_pc, pc, update, dev, now, snapshots, budget, summary,
                   worker_pc, worker_item, log, pushed>>

\* main() lines 256-258: get_nowait (queue.Empty when nothing is there), then the merge
DrainGet ==
    /\ main_pc = "drain_get"
    /\ IF data_queue = <<>>
       THEN /\ main_pc' = "crashed"
            /\ UNCHANGED <<data_queue, updates, taken>>
       ELSE /\ data_queue' = Tail(data_queue)
            /\ taken' = [taken EXCEPT !.drain = Append(@, Head(data_queue))]
            /\ updates' = IF Contains(updates, Head(data_queue)) THEN updates
                          ELSE Append(updates, Head(data_queue))
            /\ main_pc' = "drain_test"
    /\ UNCHANGED <<process, running, conn_pc, pc, update, dev, now, snapshots, budget, summary,
                   worker_pc, worker_item, log, pushed>>

\* main() lines 260-268
Report ==
    /\ main_pc = "reporting"
    /\ summary' = IF updates # <<>>
                  THEN Merge([printed |-> TRUE], process_analytics(updates))
                  ELSE NoSummary
    /\ main_pc' = "done"
    /\ UNCHANGED <<process, running, conn_pc, pc, update, dev, now, snapshots, budget, data_queue,
                   updates, worker_pc, worker_item, log, pushed, taken>>

\* asyncio.run returns or raises; the interpreter exits and takes the daemon thread with it
Exit ==
    /\ main_pc \in {"done", "crashed"}
    /\ process = "alive"
    /\ process' = "exited"
    /\ UNCHANGED <<main_pc, running, conn_pc, pc, update, dev, now, snapshots, budget, data_queue,
                   updates, summary, worker_pc, worker_item, log, pushed, taken>>

\* device_loop line 148 raises: nothing in device_loop catches, the task ends with the exception
DriverFault(d) ==
    /\ running = "loop"
    /\ pc[d] = "sleeping"
    /\ snapshots < budget
    /\ pc' = [pc EXCEPT ![d] = "faulted"]
    /\ UNCHANGED <<main_pc, process, running, conn_pc, update, dev, now, snapshots, budget,
                   data_queue, updates, summary, worker_pc, worker_item, log, pushed, taken>>

\* lines 171 and 249-252: gather re-raises the task's exception, wait_for passes it on,
\* only TimeoutError is caught: main() raises and asyncio.run cancels what is left
MainAbort ==
    /\ main_pc = "running"
    /\ running = "loop"
    /\ \E d \in Devices : pc[d] = "faulted"
    /\ pc' = [d \in Devices |-> Cancelled(pc[d])]
    /\ main_pc' = "crashed"
    /\ running' = "main"
    /\ UNCHANGED <<process, conn_pc, update, dev, now, snapshots, budget, data_queue, updates,
                   summary, worker_pc, worker_item, log, pushed, taken>>

-----------------------------------------------------------------------------
(* The storage_worker thread *)

\* line 212: open("history.log", "a") succeeds
WorkerOpen ==
    /\ process = "alive"
    /\ worker_pc = "open"
    /\ worker_pc' = "get"
    /\ UNCHANGED <<loopVars, process, data_queue, updates, summary, worker_item, log,
                   pushed, taken>>

\* line 212: open raises OSError, which nothing catches: the thread ends
WorkerOpenFail ==
    /\ process = "alive"
    /\ worker_pc = "open"
    /\ worker_pc' = "dead"
    /\ UNCHANGED <<loopVars, process, data_queue, updates, summary, worker_item, log,
                   pushed, taken>>

\* a get that takes the newest item instead of the oldest
WorkerGetNewest ==
    /\ process = "alive"
    /\ worker_pc = "get"
    /\ data_queue # <<>>
    /\ worker_item' = data_queue[Len(data_queue)]
    /\ data_queue' = SubSeq(data_queue, 1, Len(data_queue) - 1)
    /\ taken' = [taken EXCEPT !.worker = Append(@, data_queue[Len(data_queue)])]
    /\ worker_pc' = "write"
    /\ UNCHANGED <<loopVars, process, updates, summary, log, pushed>>

\* a get that reads the head and leaves it in the queue
WorkerGetKeepsItem ==
    /\ process = "alive"
    /\ worker_pc = "get"
    /\ data_queue # <<>>
    /\ worker_item' = Head(data_queue)
    /\ taken' = [taken EXCEPT !.worker = Append(@, Head(data_queue))]
    /\ worker_pc' = "write"
    /\ UNCHANGED <<loopVars, process, data_queue, updates, summary, log, pushed>>

\* line 215: data_queue.get(timeout=1) returns an item
WorkerGet ==
    /\ process = "alive"
    /\ worker_pc = "get"
    /\ data_queue # <<>>
    /\ worker_item' = Head(data_queue)
    /\ data_queue' = Tail(data_queue)
    /\ taken' = [taken EXCEPT !.worker = Append(@, Head(data_queue))]
    /\ worker_pc' = "write"
    /\ UNCHANGED <<loopVars, process, updates, summary, log, pushed>>

\* line 215: data_queue.get(timeout=1) raises queue.Empty after the timeout
WorkerTimeout ==
    /\ process = "alive"
    /\ worker_pc = "get"
    /\ data_queue = <<>>
    /\ worker_pc' = "empty"
    /\ UNCHANGED <<loopVars, process, data_queue, updates, summary, worker_item, log,
                   pushed, taken>>

\* except queue.Empty: break
WorkerBreaks ==
    /\ process = "alive"
    /\ worker_pc = "empty"
    /\ worker_pc' = "dead"
    /\ UNCHANGED <<loopVars, process, data_queue, updates, summary, worker_item, log,
                   pushed, taken>>

\* lines 218-219: except queue.Empty: continue
WorkerContinue ==
    /\ process = "alive"
    /\ worker_pc = "empty"
    /\ worker_pc' = "get"
    /\ UNCHANGED <<loopVars, process, data_queue, updates, summary, worker_item, log,
                   pushed, taken>>

\* a write that is skipped
WorkerWriteDrops ==
    /\ process = "alive"
    /\ worker_pc = "write"
    /\ worker_pc' = "get"
    /\ UNCHANGED <<loopVars, process, data_queue, updates, summary, worker_item, log,
                   pushed, taken>>

\* lines 216-217: f.write(json.dumps(update) + "\n"); f.flush()
WorkerWrite ==
    /\ process = "alive"
    /\ worker_pc = "write"
    /\ log' = Append(log, worker_item)
    /\ worker_pc' = "get"
    /\ UNCHANGED <<loopVars, process, data_queue, updates, summary, worker_item,
                   pushed, taken>>

\* lines 216-217: the write or the flush raises OSError, which nothing catches
WorkerWriteFail ==
    /\ process = "alive"
    /\ worker_pc = "write"
    /\ worker_pc' = "dead"
    /\ UNCHANGED <<loopVars, process, data_queue, updates, summary, worker_item, log,
                   pushed, taken>>

-----------------------------------------------------------------------------
(* Specifications *)

MainNext ==
    \/ MainStart
    \/ MainRun
    \/ Deadline
    \/ DrainTest
    \/ DrainGet
    \/ Report
    \/ Exit

DriverNext ==
    \E d \in Devices :
        \/ Connect(d)
        \/ DriverSnapshot(d)
        \/ DriverAlerts(d)
        \/ DriverPut(d)
        \/ DriverAppend(d)

WorkerNext ==
    \/ WorkerOpen
    \/ WorkerOpenFail
    \/ WorkerGet
    \/ WorkerTimeout
    \/ WorkerContinue
    \/ WorkerWrite
    \/ WorkerWriteFail

Next == MainNext \/ DriverNext \/ WorkerNext

Spec == Init /\ [][Next]_vars

\* both threads scheduled fairly: a thread that can take a step eventually takes one
FairSpec == Spec /\ WF_vars(MainNext) /\ WF_vars(DriverNext) /\ WF_vars(WorkerNext)

\* the event-loop thread followed alone, over a longer window
InitLoop ==
    /\ main_pc = "idle"
    /\ process = "alive"
    /\ running = "main"
    /\ conn_pc = [d \in Devices |-> "idle"]
    /\ pc = [d \in Devices |-> "notstarted"]
    /\ update = [d \in Devices |-> NoUpdate]
    /\ dev = [d \in Devices |-> NoUpdate]
    /\ now = 0
    /\ snapshots = 0
    /\ budget = MaxLoopSnapshots
    /\ data_queue = <<>>
    /\ updates = <<>>
    /\ summary = NoSummary
    /\ worker_pc = "notstarted"
    /\ worker_item = NoUpdate
    /\ log = <<>>
    /\ pushed = <<>>
    /\ taken = [worker |-> <<>>, drain |-> <<>>]

LoopNext == MainNext \/ DriverNext

LoopSpec == InitLoop /\ [][LoopNext]_vars

\* the program with a device whose send_update can raise
FaultNext == Next \/ MainAbort \/ \E d \in Devices : DriverFault(d)

FaultSpec == Init /\ [][FaultNext]_vars


-----------------------------------------------------------------------------
(* The device objects exercised directly: property writes, execute_command, send_update *)

InitApi ==
    /\ main_pc = "idle"
    /\ process = "alive"
    /\ running = "main"
    /\ conn_pc = [d \in Devices |-> "idle"]
    /\ pc = [d \in Devices |-> "notstarted"]
    /\ update = [d \in Devices |-> NoUpdate]
    /\ \E temp \in InitialTemps :
          dev = [d \in Devices |->
                   IF d = "b1" THEN NewBulb("b1", "Smart Bulb", "Living Room")
                   ELSE IF d = "t1" THEN NewThermostat("t1", "Smart Thermostat", "Main Room", temp)
                   ELSE NewCamera("c1", "Smart Camera", "Entrance")]
    /\ now = 0
    /\ snapshots = 0
    /\ budget = MaxApiCalls
    /\ data_queue = <<>>
    /\ updates = <<>>
    /\ summary = NoSummary
    /\ worker_pc = "notstarted"
    /\ worker_item = NoUpdate
    /\ log = <<>>
    /\ pushed = <<>>
    /\ taken = [worker |-> <<>>, drain |-> <<>>]

\* bulb.brightness = value
ApiSetBrightness(value) ==
    /\ now < budget
    /\ now' = now + 1
    /\ dev' = [dev EXCEPT !["b1"].brightness = SetBrightness(value)]
    /\ UNCHANGED <<main_pc, process, running, conn_pc, pc, update, snapshots, budget,
                   data_queue, updates, summary, worker_pc, worker_item, log, pushed, taken>>

\* camera.battery_level = value
ApiSetBattery(value) ==
    /\ now < budget
    /\ now' = now + 1
    /\ dev' = [dev EXCEPT !["c1"].battery_level = SetBattery(value)]
    /\ UNCHANGED <<main_pc, process, running, conn_pc, pc, update, snapshots, budget,
                   data_queue, updates, summary, worker_pc, worker_item, log, pushed, taken>>

\* device.execute_command(command, brightness=value)
ApiCommand(d, command, value) ==
    /\ now < budget
    /\ now' = now + 1
    /\ dev' = [dev EXCEPT ![d] = ExecuteCommand(dev[d], command, value, now')]
    /\ UNCHANGED <<main_pc, process, running, conn_pc, pc, update, snapshots, budget,
                   data_queue, updates, summary, worker_pc, worker_item, log, pushed, taken>>

\* device.send_update()
ApiSnapshot(d) ==
    /\ now < budget
    /\ now' = now + 1
    /\ snapshots' = snapshots + 1
    /\ \E drift \in (IF dev[d].device_type = "THERMOSTAT" THEN TempDrifts ELSE {0}),
          motion \in (IF dev[d].device_type = "CAMERA" THEN BOOLEAN ELSE {FALSE}),
          drain \in (IF dev[d].device_type = "CAMERA" THEN BatteryDrains ELSE {0}) :
          LET after == GetStatusDevice(dev[d], drift, motion, drain, now')
          IN  /\ dev' = [dev EXCEPT ![d] = after]
              /\ update' = [update EXCEPT ![d] = SendUpdate(after, now')]
    /\ UNCHANGED <<main_pc, process, running, conn_pc, pc, budget, data_queue, updates,
                   summary, worker_pc, worker_item, log, pushed, taken>>

ApiNext ==
    \/ \E value \in BrightnessWrites : ApiSetBrightness(value)
    \/ \E value \in BatteryWrites : ApiSetBattery(value)
    \/ \E d \in Devices, command \in Commands, value \in BrightnessWrites :
          ApiCommand(d, command, value)
    \/ \E d \in Devices : ApiSnapshot(d)

ApiSpec == InitApi /\ [][ApiNext]_vars


-----------------------------------------------------------------------------
(* process_analytics applied to a given list *)

InitAnalytics ==
    /\ main_pc = "reporting"
    /\ process = "alive"
    /\ running = "main"
    /\ conn_pc = [d \in Devices |-> "idle"]
    /\ pc = [d \in Devices |-> "notstarted"]
    /\ update = [d \in Devices |-> NoUpdate]
    /\ dev = [d \in Devices |-> NoUpdate]
    /\ now = 0
    /\ snapshots = 0
    /\ budget = 0
    /\ data_queue = <<>>
    /\ updates \in UNION {[1..n -> SampleUpdates] : n \in 0..MaxUpdates}
    /\ summary = NoSummary
    /\ worker_pc = "notstarted"
    /\ worker_item = NoUpdate
    /\ log = <<>>
    /\ pushed = <<>>
    /\ taken = [worker |-> <<>>, drain |-> <<>>]

\* analytics = process_analytics(updates)
Aggregate ==
    /\ main_pc = "reporting"
    /\ summary' = Merge([printed |-> TRUE], process_analytics(updates))
    /\ main_pc' = "done"
    /\ UNCHANGED <<process, running, conn_pc, pc, update, dev, now, snapshots, budget,
                   data_queue, updates, worker_pc, worker_item, log, pushed, taken>>

AnalyticsNext == Aggregate

AnalyticsSpec == InitAnalytics /\ [][AnalyticsNext]_vars


-----------------------------------------------------------------------------
(* Properties *)

AfterDeadline == main_pc \in {"drain_test", "drain_get", "reporting", "done", "crashed"}

\* C1: Channel integrity.  Every update pushed onto the queue is in exactly one
\* place: still queued, removed by the worker, or removed by the final drain; it
\* is never in two of them and never twice in one.  Nothing is removed that was
\* not pushed, what the worker removed is in the log unless it is the item the
\* worker holds (about to be written, or lost to a failed write), and once the
\* final drain has finished the queue is empty.
C1_ChannelIntegrity ==
    /\ \A i \in 1..Len(pushed) :
          Occurrences(data_queue, pushed[i]) + Occurrences(taken.worker, pushed[i])
             + Occurrences(taken.drain, pushed[i]) = 1
    /\ Len(data_queue) + Len(taken.worker) + Len(taken.drain) = Len(pushed)
    /\ \A i \in 1..Len(taken.worker) :
          \/ Contains(log, taken.worker[i])
          \/ (worker_pc \in {"write", "dead"} /\ worker_item = taken.worker[i])
    /\ \A i \in 1..Len(log) : Occurrences(taken.worker, log[i]) = 1
    /\ (main_pc \in {"reporting", "done"} => data_queue = <<>>)

\* the run has ended with updates removed by the worker and by the final drain
C1_Witness ==
    /\ main_pc = "done"
    /\ Len(taken.worker) > 0
    /\ Len(taken.drain) > 0
    /\ Len(pushed) = MaxSnapshots

\* C2: Connect barrier.  Whenever a driver has started, a snapshot has been
\* taken or main() is past the connect phase, every device is connected.
C2_ConnectBarrier ==
    (\/ \E d \in Devices : pc[d] # "notstarted"
     \/ snapshots > 0
     \/ main_pc \notin {"idle", "connecting"})
    => \A d \in Devices : dev[d].is_connected

\* a driver has taken a snapshot after the barrier
C2_Witness ==
    /\ main_pc = "running"
    /\ snapshots > 0
    /\ \E d \in Devices : pc[d] = "alert"

\* C3: Shutdown liveness.  Once the deadline has expired, main() goes on to
\* finish the drain, report and reach Done.
C3_ShutdownLiveness == (main_pc = "drain_test") ~> (main_pc = "done")

\* C4: Iteration atomicity under cancellation.  In the step in which the
\* deadline cancels the drivers, every driver is at its sleep, every update
\* pushed to the queue is in the accumulator, and a thermostat whose published
\* update reported more than 30 degrees has been cooled down to the baseline.
C4_IterationAtomicity ==
    [][(main_pc = "running" /\ main_pc' = "drain_test") =>
          /\ \A d \in Devices : pc[d] = "sleeping"
          /\ \A i \in 1..Len(pushed) : Contains(updates', pushed[i])
          /\ Len(updates') = Len(pushed')
          /\ \A d \in Devices :
                (update[d].device_type = "THERMOSTAT" /\ update[d].current_temp > 3000)
                => (dev'[d].current_temp = 2200 /\ dev'[d].target_temp = 2200)]_vars

\* the drivers were cancelled after a thermostat published a high-temperature update
C4_Witness ==
    /\ main_pc = "drain_test"
    /\ \A d \in Devices : pc[d] = "cancelled"
    /\ update["t1"].device_type = "THERMOSTAT"
    /\ update["t1"].current_temp > 3000
    /\ Len(pushed) = MaxSnapshots

\* C5: Deadline cancellation stops production.  From the deadline on every
\* driver is cancelled and stays so: no snapshot is taken, no device changes,
\* nothing is pushed, and the accumulator changes at most by main()'s own merge.
\* The expiry is passed as normal termination (main() goes on to the drain), and
\* when it comes before any snapshot the run ends with no update collected.
C5_DeadlineStopsProduction ==
    [][/\ (main_pc = "running" /\ main_pc' # "running") =>
              /\ main_pc' = "drain_test"
              /\ \A d \in Devices : pc'[d] = "cancelled"
       /\ AfterDeadline =>
              /\ \A d \in Devices : pc[d] = "cancelled"
              /\ pc' = pc /\ update' = update /\ dev' = dev
              /\ snapshots' = snapshots /\ pushed' = pushed
              /\ (main_pc = "drain_get" \/ updates' = updates)
              /\ (snapshots = 0 =>
                     /\ updates' = <<>>
                     /\ main_pc' \in {"drain_test", "reporting", "done"})]_vars

\* the deadline expired before any snapshot and the run completed
C5_Witness ==
    /\ main_pc = "done"
    /\ snapshots = 0
    /\ updates = <<>>
    /\ \A d \in Devices : pc[d] = "cancelled"

\* C6: Per-device fault isolation.  main() leaves Running only by the deadline,
\* and then every driver is still in its loop: a fault in one iteration has
\* ended neither that driver nor the run.
C6_FaultIsolation ==
    [][(main_pc = "running" /\ main_pc' # "running") =>
          /\ main_pc' = "drain_test"
          /\ \A d \in Devices : pc[d] = "sleeping"]_vars

\* C7: Log failure is surfaced.  main() does not complete normally once the
\* worker has died of a failed open or write.
C7_LogFailureSurfaced == [][worker_pc = "dead" => main_pc' # "done"]_vars

\* C8 as stated: before teardown the started worker is alive in every state.
C8_WorkerAlwaysAlive ==
    (process = "alive" /\ worker_pc # "notstarted") => worker_pc # "dead"

\* C8, amended: a pop that times out leaves the log and the queue as they are
\* and is followed by another poll; the worker ends only at a failed open or
\* write of the log, so a worker whose log has not failed is alive.
C8_TimeoutKeepsPolling ==
    [][/\ (worker_pc = "get" /\ worker_pc' = "empty") =>
              (data_queue = <<>> /\ log' = log /\ data_queue' = data_queue)
       /\ (worker_pc = "empty" /\ worker_pc' # "empty") =>
              (worker_pc' = "get" /\ log' = log /\ data_queue' = data_queue)
       /\ (worker_pc # "dead" /\ worker_pc' = "dead") => worker_pc \in {"open", "write"}]_vars

\* the worker timed out after writing a record, and a later push is waiting for it
C8_Witness ==
    /\ worker_pc = "empty"
    /\ log # <<>>
    /\ data_queue # <<>>
    /\ process = "alive"

\* C9: High-temperature alert triggers cool_down.  The alert step of a
\* thermostat whose snapshot reported more than 30 degrees sets current_temp and
\* target_temp to 22, and they stay there until the driver's next snapshot; the
\* alert step of a snapshot at or below 30 leaves the device as it is.
C9_HighTempCoolDown ==
    [][/\ \A d \in Devices :
             (pc[d] = "alert" /\ pc'[d] = "put" /\ dev[d].device_type = "THERMOSTAT") =>
                IF update[d].current_temp > 3000
                THEN dev'[d].current_temp = 2200 /\ dev'[d].target_temp = 2200
                ELSE dev'[d] = dev[d]
       /\ \A d \in Devices :
             (/\ pc'[d] \in {"put", "append", "sleeping", "cancelled"}
              /\ update'[d].device_type = "THERMOSTAT"
              /\ update'[d].current_temp > 3000)
             => (dev'[d].current_temp = 2200 /\ dev'[d].target_temp = 2200)]_vars

\* a thermostat iteration ended after a snapshot above 30 degrees
C9_Witness ==
    /\ pc["t1"] = "sleeping"
    /\ update["t1"].device_type = "THERMOSTAT"
    /\ update["t1"].current_temp > 3000
    /\ dev["t1"].current_temp = 2200
    /\ dev["t1"].target_temp = 2200

\* C10: Alert side-effect policy.  The alert step of device d changes no other
\* device; it changes d only when d is a thermostat whose snapshot reported more
\* than 30 degrees, and then it does change it.  A camera's motion alert and
\* low-battery warning change nothing.
C10_AlertSideEffects ==
    [][\A d \in Devices :
          (pc[d] = "alert" /\ pc'[d] = "put") =>
             /\ \A e \in Devices \ {d} : dev'[e] = dev[e]
             /\ IF dev[d].device_type = "THERMOSTAT" /\ update[d].current_temp > 3000
                THEN dev'[d] # dev[d]
                ELSE dev' = dev]_vars

\* a camera iteration raised both the motion alert and the low-battery warning
C10_Witness ==
    /\ pc["c1"] = "put"
    /\ update["c1"].device_type = "CAMERA"
    /\ update["c1"].motion_detected
    /\ update["c1"].battery_level < 1000

\* C11: Clamping invariant.  Brightness is always in [0, 100] and the battery
\* level in [0, 100] (hundredths: [0, 10000]).  A write of v to either property,
\* turn_on with brightness v, and the one or two battery writes of a camera
\* snapshot each store max(0, min(100, v)).
C11_Clamping ==
    [][LET Max(a, b) == IF a > b THEN a ELSE b
           Min(a, b) == IF a < b THEN a ELSE b
           Sat(v, top) == Max(0, Min(top, v))
       IN  /\ dev["b1"].brightness \in 0..100 /\ dev'["b1"].brightness \in 0..100
           /\ dev["c1"].battery_level \in 0..10000 /\ dev'["c1"].battery_level \in 0..10000
           /\ \A v \in BrightnessWrites :
                 ApiSetBrightness(v) => dev'["b1"].brightness = Sat(v, 100)
           /\ \A v \in BrightnessWrites :
                 ApiCommand("b1", "turn_on", v) =>
                    (dev'["b1"].brightness = Sat(v, 100) /\ dev'["b1"].is_on)
           /\ \A v \in BatteryWrites :
                 ApiSetBattery(v) => dev'["c1"].battery_level = Sat(v, 10000)
           /\ ApiSnapshot("c1") =>
                 \E drain \in BatteryDrains :
                    dev'["c1"].battery_level =
                       IF dev'["c1"].motion_detected
                       THEN Sat(Sat(dev["c1"].battery_level - drain, 10000) - 1000, 10000)
                       ELSE Sat(dev["c1"].battery_level - drain, 10000)]_vars

\* a snapshot with motion drained a battery that was already below the drain, and
\* an out-of-range brightness was written
C11_Witness ==
    /\ dev["c1"].battery_level = 0
    /\ dev["c1"].motion_detected
    /\ update["c1"].device_type = "CAMERA"
    /\ update["c1"].battery_level = 0
    /\ dev["b1"].brightness = 100
    /\ now = MaxApiCalls

\* C12: Command no-op.  execute_command with a name the device's kind does not
\* recognise changes no device and nothing else of the program's data.
C12_UnknownCommandNoOp ==
    [][\A d \in Devices, command \in Commands, value \in BrightnessWrites :
          (/\ ApiCommand(d, command, value)
           /\ ~(dev[d].device_type = "BULB" /\ command = "turn_on")
           /\ ~(dev[d].device_type = "THERMOSTAT" /\ command = "cool_down")
           /\ ~(dev[d].device_type = "CAMERA" /\ command = "snapshot"))
          => UNCHANGED <<dev, update, data_queue, updates, log, pushed, taken, summary>>]_vars

\* after a write and a snapshot, one more call went by and changed nothing in the devices
C12_Witness ==
    /\ now = MaxApiCalls
    /\ snapshots = 1
    /\ dev["b1"].brightness = 55
    /\ ~dev["b1"].is_on
    /\ dev["t1"].current_temp > 2800
    /\ dev["c1"].last_snapshot = 0
    /\ dev["c1"].battery_level = 10000

RECURSIVE PrefixSum(_, _)
PrefixSum(f, k) == IF k = 0 THEN 0 ELSE f[k] + PrefixSum(f, k - 1)

\* the update lists of the two worked examples
ExampleUpdates ==
    <<[device_type |-> "THERMOSTAT", current_temp |-> 2800],
      [device_type |-> "THERMOSTAT", current_temp |-> 3200],
      [device_type |-> "CAMERA", battery_level |-> 500],
      [device_type |-> "BULB", is_on |-> TRUE, brightness |-> 80]>>

IsKind(us, i, kind) == us[i].device_type = kind

TempTotal(us) ==
    PrefixSum([i \in 1..Len(us) |-> IF IsKind(us, i, "THERMOSTAT") THEN us[i].current_temp ELSE 0],
              Len(us))

BatteryTotal(us) ==
    PrefixSum([i \in 1..Len(us) |-> IF IsKind(us, i, "CAMERA") THEN us[i].battery_level ELSE 0],
              Len(us))

KindCount(us, kind) == Cardinality({i \in 1..Len(us) : IsKind(us, i, kind)})

\* r is total / count to the nearest tenth (r in hundredths), and 0 for no values
NearestTenth(r, total, count) ==
    IF count = 0 THEN r = 0
    ELSE /\ r % 10 = 0
         /\ 2 * (count * r - total) <= 10 * count
         /\ 2 * (total - count * r) <= 10 * count

\* the counts and sums of C13 that involve no mean
C13_CountsAndSums ==
    /\ summary.total_updates = Len(updates)
    /\ summary.critical_count =
          Cardinality({i \in 1..Len(updates) :
                          \/ IsKind(updates, i, "THERMOSTAT") /\ updates[i].current_temp > 3000
                          \/ IsKind(updates, i, "CAMERA") /\ updates[i].battery_level < 1000})
    /\ summary.total_brightness =
          PrefixSum([i \in 1..Len(updates) |->
                        IF IsKind(updates, i, "BULB") /\ updates[i].is_on
                        THEN updates[i].brightness ELSE 0], Len(updates))
    /\ (updates = ExampleUpdates =>
           /\ summary.avg_temp = 3000 /\ summary.critical_count = 2
           /\ summary.total_brightness = 80 /\ summary.avg_battery = 500
           /\ summary.total_updates = 4)
    /\ (updates = <<>> =>
           /\ summary.avg_temp = 0 /\ summary.critical_count = 0
           /\ summary.total_brightness = 0 /\ summary.avg_battery = 0
           /\ summary.total_updates = 0)

\* C13 as stated: the counts and sums, with avg_temp and avg_battery the means
\* themselves (0 over an empty subset).
C13_AnalyticsExactMeans ==
    (main_pc = "done" /\ summary.printed) =>
        /\ C13_CountsAndSums
        /\ summary.avg_temp * KindCount(updates, "THERMOSTAT") = TempTotal(updates)
        /\ summary.avg_battery * KindCount(updates, "CAMERA") = BatteryTotal(updates)

\* C13, amended: the counts and sums, with avg_temp and avg_battery the means
\* rounded to one decimal place (0 over an empty subset).
C13_AnalyticsRoundedMeans ==
    (main_pc = "done" /\ summary.printed) =>
        /\ C13_CountsAndSums
        /\ NearestTenth(summary.avg_temp, TempTotal(updates), KindCount(updates, "THERMOSTAT"))
        /\ NearestTenth(summary.avg_battery, BatteryTotal(updates), KindCount(updates, "CAMERA"))

\* the four-update example has been aggregated
C13_Witness ==
    /\ main_pc = "done"
    /\ summary.printed
    /\ updates = ExampleUpdates
    /\ summary.avg_temp = 3000
    /\ summary.critical_count = 2

\* C14: Accumulator exactness after the drain.  The drain's merge never changes
\* the accumulator; when main() is in Reporting or Done the accumulator is the
\* sequence of pushed updates, one entry per completed iteration, and the
\* total_updates it prints is the number of snapshots taken.
C14_AccumulatorExact ==
    [][/\ (main_pc = "drain_get" => updates' = updates)
       /\ (main_pc' \in {"reporting", "done"} =>
              /\ updates' = pushed'
              /\ Len(updates') = snapshots'
              /\ \A i \in 1..Len(updates') : Occurrences(updates', updates'[i]) = 1)
       /\ (summary'.printed => summary'.total_updates = snapshots')]_vars

\* the summary was printed after the drain had found updates the worker had not taken
C14_Witness ==
    /\ main_pc = "done"
    /\ summary.printed
    /\ Len(taken.drain) > 1
    /\ Len(updates) = MaxSnapshots

PerDeviceOrder(s) ==
    \A i, j \in 1..Len(s) :
        (i < j /\ s[i].device_id = s[j].device_id) => s[i].timestamp < s[j].timestamp

\* C15: Per-producer order.  In the accumulator, in the queue and in the log the
\* updates of one device are in the order its driver produced them, and the log
\* is what the worker popped, in that order.
C15_PerProducerOrder ==
    /\ PerDeviceOrder(updates)
    /\ PerDeviceOrder(data_queue)
    /\ PerDeviceOrder(log)
    /\ Len(log) <= Len(taken.worker)
    /\ \A i \in 1..Len(log) : log[i] = taken.worker[i]

\* the log holds two updates of one device while another of its updates is queued
C15_Witness ==
    /\ \E i, j \in 1..Len(log) : i < j /\ log[i].device_id = log[j].device_id
    /\ \E i \in 1..Len(data_queue) : data_queue[i].device_id = log[1].device_id

\* C16: Reporting always emits a summary.  main() does not reach Done without
\* having printed the analytics summary.
C16_SummaryAlwaysEmitted == main_pc = "done" => summary.printed

\* C17: Race-free final drain.  The drain never fails on an empty queue, and
\* leaves the queue empty.
C17_DrainNeverFails ==
    /\ main_pc # "crashed"
    /\ (main_pc \in {"reporting", "done"} => data_queue = <<>>)

\* C18 as stated: every record of the log is in the accumulator.
C18_LogNeverLeads == \A i \in 1..Len(log) : Contains(updates, log[i])

\* C18, amended: every record of the log is in the accumulator, or is the update
\* that the driver now running has pushed and not yet appended; the records of
\* the log are in the order in which they were pushed.
C18_LogLeadsByAtMostOne ==
    /\ \A i \in 1..Len(log) :
          \/ Contains(updates, log[i])
          \/ \E d \in Devices : running = d /\ pc[d] = "append" /\ update[d] = log[i]
    /\ \A i, j \in 1..Len(log) :
          i < j => \E k, l \in 1..Len(pushed) : k < l /\ pushed[k] = log[i] /\ pushed[l] = log[j]

\* the worker has written an update that its driver has not appended yet
C18_Witness ==
    \E d \in Devices :
        /\ pc[d] = "append"
        /\ Contains(log, update[d])
        /\ ~Contains(updates, update[d])

\* C19 as stated, in its final form: at Done every update of the accumulator
\* has a line in the log.
C19_AllPersistedAtDone ==
    main_pc = "done" => \A i \in 1..Len(updates) : Contains(log, updates[i])

\* C19, amended: no update is logged twice; an update the worker has popped is
\* eventually in the log unless its write fails or the process exits first; at
\* Done every update of the accumulator is in the log, was removed by the final
\* drain, or is the one the worker holds.
C19_PersistedUnlessDrained ==
    /\ [](\A i \in 1..Len(pushed) : Occurrences(log, pushed[i]) <= 1)
    /\ [](main_pc = "done" =>
             \A i \in 1..Len(updates) :
                \/ Contains(log, updates[i])
                \/ Contains(taken.drain, updates[i])
                \/ (worker_pc \in {"write", "dead"} /\ worker_item = updates[i]))
    /\ ((worker_pc = "write") ~>
           (Contains(log, worker_item) \/ worker_pc = "dead" \/ process = "exited"))

\* at Done one update is in the log and another was taken by the drain
C19_Witness ==
    /\ main_pc = "done"
    /\ log # <<>>
    /\ taken.drain # <<>>
    /\ worker_pc \in {"get", "empty"}

\* C20: Bounded thermostat overshoot.  While its driver sleeps a thermostat is
\* at most at 30 degrees to one decimal (below 30.05, and at most 30 when its
\* temperature is a one-decimal number); no thermostat update reports more than
\* 32 degrees, and no two consecutive updates of a thermostat both report more
\* than 30.
C20_BoundedOvershoot ==
    /\ \A d \in Devices :
          (dev[d].device_type = "THERMOSTAT" /\ pc[d] \in {"sleeping", "cancelled"}) =>
             /\ dev[d].current_temp < 3005
             /\ (dev[d].current_temp % 10 = 0 => dev[d].current_temp <= 3000)
    /\ \A i \in 1..Len(updates) :
          updates[i].device_type = "THERMOSTAT" => updates[i].current_temp <= 3200
    /\ \A i, j \in 1..Len(updates) :
          (/\ i < j
           /\ updates[i].device_type = "THERMOSTAT"
           /\ updates[j].device_id = updates[i].device_id
           /\ \A k \in (i + 1)..(j - 1) : updates[k].device_id # updates[i].device_id)
          => ~(updates[i].current_temp > 3000 /\ updates[j].current_temp > 3000)

\* a thermostat reported 32 degrees, was cooled down and reported again
C20_Witness ==
    /\ pc["t1"] = "sleeping"
    /\ \E i, j \in 1..Len(updates) :
          /\ i < j
          /\ updates[i].device_type = "THERMOSTAT"
          /\ updates[i].current_temp = 3200
          /\ updates[j].device_type = "THERMOSTAT"

=============================================================================
